---- MODULE Spec2Model ----
(***************************************************************************)
(* Model of RagentDev/alpha-omega, src/client/ResponsiveThreeScene.ts:     *)
(* the subdivision indexer (getSubTrianglePosition and                     *)
(* calculateSubTriangleIndex), the biome classifier (getRandomLandType),   *)
(* the tile color atlas (createColorDataTexture, updateSubTriangleColor)   *)
(* and the click picker (setupClickHandler, getBarycentricCoordinates).    *)
(*                                                                         *)
(* Numbers.  A JavaScript number is modelled exactly as a record           *)
(* [k, n, d]: k = "fin" is the rational n/d with d > 0; k = "nan", "pinf", *)
(* "ninf" are NaN, +Infinity and -Infinity (n = 0, d = 1).  Rounding of    *)
(* finite doubles is not modelled: the arithmetic is exact.                *)
(* Color channels and atlas floats are in units of 1/255 (One is 1.0).     *)
(* Noise values are in hundredths, elevations in thousandths.              *)
(***************************************************************************)
EXTENDS Integers, FiniteSets, Sequences, TLC

VARIABLES
    SUBDIVIDES,     \* this.SUBDIVIDES
    faceCount,      \* number of faces of the unindexed geometry
    positions,      \* geometry.attributes.position: face -> <<v1, v2, v3>>
    noiseSeed,      \* the random permutation createNoise3D() drew for this.noise3D
    triangleMap,    \* this.triangleMap: tileId -> LandTile
    colorData,      \* this.colorDataTexture.image.data (flat float array)
    needsUpdate,    \* the texture is dirty: set by needsUpdate = true, cleared by an upload
    uniforms,       \* this.sphereMaterial.uniforms (set once in setupScene)
    pc,             \* "build" inside setupScene, "ready" once the constructor is over
    faceIdx,        \* setupScene's loop variable faceIdx
    subIdx,         \* setupScene's loop variable subIdx
    tileId,         \* setupScene's running tileId
    ret,            \* what the last public call returned to its caller
    ops,            \* number of clicks and updateSubTriangleColor calls so far
    probe,          \* indexer specification: the last input applied and its results
    elevation,      \* classifier specification: the elevation classified
    landType        \* classifier specification: the category returned

vars == <<SUBDIVIDES, faceCount, positions, noiseSeed, triangleMap, colorData,
          needsUpdate, uniforms, pc, faceIdx, subIdx, tileId, ret, ops,
          probe, elevation, landType>>

sceneVars == <<SUBDIVIDES, faceCount, positions, noiseSeed, triangleMap, colorData,
               needsUpdate, uniforms, pc, faceIdx, subIdx, tileId, ret, ops>>

(***************************************************************************)
(* Bounds of the model                                                     *)
(***************************************************************************)
\* largest configured value of SUBDIVIDES the build pass is run with
MaxBuildLevel == 3
\* largest number of faces of the mesh
MaxFaces == 2
\* largest number of tiles (faceCount * SUBDIVIDES * SUBDIVIDES) of a build
MaxTiles == 9
\* number of clicks and updateSubTriangleColor calls in a behaviour
MaxOps == 2
\* side of the integer grid the vertices and hit points of a face lie on
G == 4
\* how far outside [1, MaxLevel] an argument of setSubdivisionLevel may lie
LevelSlack == 1
\* the epsilon of a probed weight, in hundredths of a grid step
Eps == 1
\* largest number of tiles of an atlas built on its own
MaxAtlasTiles == 16

(***************************************************************************)
(* Program constants                                                       *)
(***************************************************************************)
MinLevel == 1
MaxLevel == 10
\* the barycentric offsets 0.33 and 0.66, in hundredths of a grid step
LowerOffset == 33
UpperOffset == 66
\* 1.0 in the units of a color channel
One == 255
\* the index value NaN (every numeric index the code returns is >= 0)
NaN == -1

Min(a, b) == IF a < b THEN a ELSE b
Max(a, b) == IF a > b THEN a ELSE b

(***************************************************************************)
(* JavaScript numbers                                                      *)
(***************************************************************************)
Fin(n, d) == [k |-> "fin", n |-> n, d |-> d]
NotANumber == [k |-> "nan", n |-> 0, d |-> 1]
PlusInfinity == [k |-> "pinf", n |-> 0, d |-> 1]
MinusInfinity == [k |-> "ninf", n |-> 0, d |-> 1]

\* x * Infinity for a finite x whose sign is that of num
TimesInfinity(num) ==
    IF num > 0 THEN PlusInfinity
    ELSE IF num < 0 THEN MinusInfinity
    ELSE NotANumber

(***************************************************************************)
(* Subdivision indexer, inverse direction                                  *)
(***************************************************************************)
\* index = trianglesBeforeRow + posInRow
SubIndexOf(n, row, col, triangleInCell) ==
    LET trianglesBeforeRow == row * (2 * n - row)
        posInRow == col * 2 + triangleInCell
    IN  trianglesBeforeRow + posInRow

\* the result when gridU or gridV is not finite (kx, ky: their kinds), n > 1:
\* NaN poisons the sum and the index; +Infinity makes gridX + gridY >= n true
\* unless the other is -Infinity (NaN >= n is false); otherwise the index is
\* -Infinity, which Math.max(0, .) turns into 0.
NonFiniteIndex(S, kx, ky) ==
    IF kx = "nan" \/ ky = "nan" THEN NaN
    ELSE IF kx = "pinf" THEN (IF ky = "ninf" THEN NaN ELSE S * S - 1)
    ELSE IF kx = "ninf" THEN 0
    ELSE IF ky = "pinf" THEN S * S - 1
    ELSE 0

calculateSubTriangleIndex(S, bary) ==
    IF S <= 1 THEN 0
    ELSE
      LET n == S
          u == bary.y
          v == bary.z
      IN  IF u.k # "fin" \/ v.k # "fin" THEN NonFiniteIndex(S, u.k, v.k)
          ELSE
            LET gridX == (u.n * n) \div u.d           \* Math.floor(u * n)
                gridY == (v.n * n) \div v.d
                localUn == (u.n * n) % u.d            \* localU = localUn / u.d
                localVn == (v.n * n) % v.d
            IN  IF gridX + gridY >= n THEN S * S - 1
                ELSE
                  LET row == gridY
                      col == gridX
                      triangleInCell ==
                          IF localUn * v.d + localVn * u.d > u.d * v.d THEN 1 ELSE 0
                      index == SubIndexOf(n, row, col, triangleInCell)
                  IN  Min(Max(0, index), S * S - 1)

(***************************************************************************)
(* Fragment shader: the sub-triangle a fragment is drawn from.  A fragment *)
(* carries the weights interpolated from the vertex attributes, which are  *)
(* finite.                                                                 *)
(***************************************************************************)
\* GLSL floor, fract and clamp on rationals
floor(x) == x.n \div x.d
fract(x) == Fin(x.n - floor(x) * x.d, x.d)
clamp(x, minVal, maxVal) == Min(Max(x, minVal), maxVal)

\* getSubTriangleIndex(bary) under the uniforms subdivisions and
\* subTrianglesPerFace
getSubTriangleIndex(subdivisions, subTrianglesPerFace, bary) ==
    IF subdivisions <= 1 THEN 0
    ELSE
      LET n == subdivisions
          u == bary.y
          v == bary.z
          gridU == Fin(u.n * n, u.d)
          gridV == Fin(v.n * n, v.d)
          gridX == floor(gridU)
          gridY == floor(gridV)
          localU == fract(gridU)
          localV == fract(gridV)
      IN  IF gridX + gridY >= n THEN subTrianglesPerFace - 1
          ELSE
            LET row == gridY
                col == gridX
                trianglesBeforeRow == row * (2 * n - row)
                triangleInCell ==
                    IF localU.n * localV.d + localV.n * localU.d > localU.d * localV.d
                    THEN 1 ELSE 0
                posInRow == col * 2 + triangleInCell
                index == trianglesBeforeRow + posInRow
            IN  clamp(index, 0, subTrianglesPerFace - 1)

(***************************************************************************)
(* Subdivision indexer, forward direction                                  *)
(***************************************************************************)
\* a row count that is one triangle too long
subTrianglesPerRowMutant(n, i) == 2 * (n - i)

\* each row i has 2*(n-i)-1 triangles
subTrianglesPerRow(n, i) == 2 * (n - i) - 1

\* the loop "find which row this sub-triangle is in", from row i on:
\* <<row, trianglesBefore>> when the loop ends
RECURSIVE FindRow(_, _, _, _)
FindRow(n, subIndex, i, trianglesBefore) ==
    IF i >= n THEN <<0, trianglesBefore>>
    ELSE IF trianglesBefore + subTrianglesPerRow(n, i) > subIndex
         THEN <<i, trianglesBefore>>
         ELSE FindRow(n, subIndex, i + 1, trianglesBefore + subTrianglesPerRow(n, i))

\* row, col and isUpper of sub-triangle subIndex
DecodeSubIndex(n, subIndex) ==
    LET found == FindRow(n, subIndex, 0, 0)
        row == found[1]
        posInRow == subIndex - found[2]
    IN  [row |-> row, col |-> posInRow \div 2, isUpper |-> (posInRow % 2) = 1]

\* the barycentric weights of the position returned: the position is
\* w*v1 + u*v2 + v*v3, so u is the weight of vertex 2 (bary.y) and v the
\* weight of vertex 3 (bary.z)
getSubTrianglePosition(n, subIndex) ==
    LET cell == DecodeSubIndex(n, subIndex)
        off == IF cell.isUpper THEN UpperOffset ELSE LowerOffset
        un == cell.row * 100 + off               \* u = un / (100 n)
        vn == cell.col * 100 + off               \* v = vn / (100 n)
        wNegative == un + vn > 100 * n
    IN  IF wNegative
        THEN [y |-> Fin(un, un + vn), z |-> Fin(vn, un + vn)]
        ELSE [y |-> Fin(un, 100 * n), z |-> Fin(vn, 100 * n)]

(***************************************************************************)
(* Biome classifier                                                        *)
(***************************************************************************)
\* the noise functions createNoise3D() may return (it seeds from Math.random)
Seeds == {1, 2}

\* (this.noise3D(position * scale) + 1) * 0.5, in hundredths.  The simplex
\* noise of the library is replaced by an arbitrary function of the seed and
\* of the sampled point (face, barycentric weights); scale2 is 2 * scale.
getNoise3D(seed, face, pos, scale2) ==
    (seed * 7 + face * 31 + pos.y.n * 3 + pos.z.n * 5 + scale2 * 11) % 101

\* continental * 0.6 + regional * 0.3 + local * 0.1, in thousandths
getLayeredNoise(seed, face, pos) ==
    LET continental == getNoise3D(seed, face, pos, 1) * 6
        regional == getNoise3D(seed, face, pos, 3) * 3
        local == getNoise3D(seed, face, pos, 8) * 1
    IN  continental + regional + local

\* the chain of comparisons of getRandomLandType, on an elevation in thousandths
LandTypeOfElevation(e) ==
    IF e < 450 THEN "ocean"
    ELSE IF e > 450 /\ e < 500 THEN "desert"
    ELSE IF e > 500 /\ e < 700 THEN "plains"
    ELSE IF e > 700 /\ e < 800 THEN "forest"
    ELSE IF e > 800 THEN "mountain"
    ELSE "forest"

getRandomLandType(seed, face, pos) ==
    LandTypeOfElevation(getLayeredNoise(seed, face, pos))

(***************************************************************************)
(* Colors: a THREE.Color is the record of its three channels               *)
(***************************************************************************)
Color(r, g, b) == [r |-> r, g |-> g, b |-> b]

getLandTypeColor(type) ==
    CASE type = "ocean"    -> Color(0, 119, 190)        \* 0x0077be
      [] type = "plains"   -> Color(124, 179, 66)       \* 0x7cb342
      [] type = "forest"   -> Color(46, 125, 50)        \* 0x2e7d32
      [] type = "mountain" -> Color(128, 128, 128)      \* 0x808080
      [] type = "desert"   -> Color(255, 193, 7)        \* 0xffc107
      [] type = "city"     -> Color(158, 158, 158)      \* 0x9e9e9e
      [] OTHER             -> Color(0, 0, 0)

\* new THREE.Color(0xff0000), the color a click paints
Red == Color(One, 0, 0)
\* the colors updateSubTriangleColor is called with
Colors == {Red, Color(0, One, 0)}

(***************************************************************************)
(* Geometry: a face is <<v1, v2, v3>>, each a point <<x, y, z>>            *)
(***************************************************************************)
Dot(a, b) == a[1] * b[1] + a[2] * b[2] + a[3] * b[3]
Sub(a, b) == <<a[1] - b[1], a[2] - b[2], a[3] - b[3]>>

RightFace == << <<0, 0, 0>>, <<G, 0, 0>>, <<0, G, 0>> >>
\* a face whose three vertices are collinear
CollinearFace == << <<0, 0, 0>>, <<G, 0, 0>>, <<2 * G, 0, 0>> >>

\* the meshes handed to the scene: fc faces, the last one possibly degenerate
Meshes(fc) ==
    { [f \in 0 .. fc - 1 |-> RightFace],
      [f \in 0 .. fc - 1 |-> IF f = fc - 1 THEN CollinearFace ELSE RightFace] }

\* the points the raycaster reports for a hit of a face: points of the face
HitPoints(face) ==
    { p \in { <<x, y, 0>> : x \in 0 .. G, y \in 0 .. G } :
        LET v0 == Sub(face[3], face[1])
            v1v2 == Sub(face[2], face[1])
            d == Dot(v0, v0) * Dot(v1v2, v1v2) - Dot(v0, v1v2) * Dot(v0, v1v2)
        IN  IF d = 0 THEN p[2] = 0 ELSE p[1] + p[2] <= G }

\* the varying vBarycentric of the fragment at point of a face that has an
\* area: the attribute (1,0,0), (0,1,0), (0,0,1) of the three vertices
\* interpolated, so point = v1 + y (v2 - v1) + z (v3 - v1)
vBarycentric(point, face) ==
    CHOOSE b \in { [y |-> Fin(a, G), z |-> Fin(c, G)] : a \in 0 .. G, c \in 0 .. G } :
        \A i \in 1 .. 3 :
            G * (point[i] - face[1][i]) =
                b.y.n * (face[2][i] - face[1][i]) + b.z.n * (face[3][i] - face[1][i])

\* the vector (w, v, u) returned; only its y and z are ever read.  The mesh is
\* never moved, so worldToLocal is the identity.
getBarycentricCoordinates(point, face) ==
    LET v1 == face[1]
        v2 == face[2]
        v3 == face[3]
        v0 == Sub(v3, v1)
        v1v2 == Sub(v2, v1)
        v2p == Sub(point, v1)
        dot00 == Dot(v0, v0)
        dot01 == Dot(v0, v1v2)
        dot02 == Dot(v0, v2p)
        dot11 == Dot(v1v2, v1v2)
        dot12 == Dot(v1v2, v2p)
        denom == dot00 * dot11 - dot01 * dot01      \* >= 0 (Cauchy-Schwarz)
        unum == dot11 * dot02 - dot01 * dot12
        vnum == dot00 * dot12 - dot01 * dot02
        u == IF denom = 0 THEN TimesInfinity(unum) ELSE Fin(unum, denom)
        v == IF denom = 0 THEN TimesInfinity(vnum) ELSE Fin(vnum, denom)
    IN  [y |-> v, z |-> u]

(***************************************************************************)
(* Tile records and the color atlas                                        *)
(***************************************************************************)
\* a square root rounded down
CeilSqrtMutant(n) == CHOOSE s \in 0 .. n : s * s <= n /\ (s + 1) * (s + 1) > n

\* Math.ceil(Math.sqrt(n))
CeilSqrt(n) == CHOOSE s \in 0 .. n : s * s >= n /\ (s = 0 \/ (s - 1) * (s - 1) < n)

\* this.triangleMap.set(key, value)
MapSet(map, key, value) ==
    [k \in DOMAIN map \cup {key} |-> IF k = key THEN value ELSE map[k]]

\* a record with parentTriangle and subIndex exchanged
LandTileMutant(id, face, subIndex, type) ==
    [id |-> id, name |-> <<face, subIndex>>, type |-> type,
     color |-> getLandTypeColor(type), parentTriangle |-> subIndex, subIndex |-> face]

\* the record setupScene stores for sub-triangle subIndex of face face
LandTile(id, face, subIndex, type) ==
    [id |-> id, name |-> <<face, subIndex>>, type |-> type,
     color |-> getLandTypeColor(type), parentTriangle |-> face, subIndex |-> subIndex]

\* float k of the buffer createColorDataTexture(tileCount) fills
TexelFloat(map, tileCount, k) ==
    LET i == k \div 4
        channel == k % 4
    IN  IF i < tileCount
        THEN IF i \in DOMAIN map
             THEN CASE channel = 0 -> map[i].color.r
                    [] channel = 1 -> map[i].color.g
                    [] channel = 2 -> map[i].color.b
                    [] OTHER       -> One
             ELSE CASE channel = 1 -> 0              \* magenta for missing tiles
                    [] OTHER       -> One
        ELSE CASE channel = 3 -> One
               [] OTHER       -> 0

createColorDataTexture(map, tileCount) ==
    LET textureSize == CeilSqrt(tileCount)
        totalTexels == textureSize * textureSize
    IN  [k \in 0 .. totalTexels * 4 - 1 |-> TexelFloat(map, tileCount, k)]

\* a base index that is one cell too far
BaseIndexMutant(id) == id * 4 + 4

\* baseIndex of updateSubTriangleColor
BaseIndex(id) == id * 4

\* data[index] = value on a Float32Array: a write outside the array is ignored
SetFloat(data, index, value) ==
    IF index \in DOMAIN data THEN [data EXCEPT ![index] = value] ELSE data

\* an update that writes the atlas cell and forgets the tile record
updateSubTriangleColorMutant(id, color) ==
    IF id \in DOMAIN triangleMap
    THEN /\ triangleMap' = triangleMap
         /\ colorData' =
                SetFloat(SetFloat(SetFloat(SetFloat(colorData,
                    BaseIndex(id) + 0, color.r),
                    BaseIndex(id) + 1, color.g),
                    BaseIndex(id) + 2, color.b),
                    BaseIndex(id) + 3, One)
         /\ needsUpdate' = TRUE
    ELSE UNCHANGED <<triangleMap, colorData, needsUpdate>>

\* the effect of updateSubTriangleColor(id, color) on the three fields it writes
updateSubTriangleColor(id, color) ==
    IF id \in DOMAIN triangleMap
    THEN /\ triangleMap' = [triangleMap EXCEPT ![id].color = color]
         /\ colorData' =
                SetFloat(SetFloat(SetFloat(SetFloat(colorData,
                    BaseIndex(id) + 0, color.r),
                    BaseIndex(id) + 1, color.g),
                    BaseIndex(id) + 2, color.b),
                    BaseIndex(id) + 3, One)
         /\ needsUpdate' = TRUE
    ELSE UNCHANGED <<triangleMap, colorData, needsUpdate>>

(***************************************************************************)
(* Values of the parts of the state a specification does not use           *)
(***************************************************************************)
NoCell == [row |-> 0, col |-> 0, isUpper |-> FALSE]
NoBary == [y |-> Fin(0, 1), z |-> Fin(0, 1)]
NoProbe == [kind |-> "none", sub |-> 0, cell |-> NoCell, bary |-> NoBary, out |-> 0]
NoUniforms == [textureSize |-> 0, totalTriangles |-> 0, subdivisions |-> 0,
               subTrianglesPerFace |-> 0]

\* the scene part of the state where no scene is under consideration
NoScene ==
    /\ faceCount = 0
    /\ positions = <<>>
    /\ noiseSeed = 0
    /\ triangleMap = <<>>
    /\ colorData = <<>>
    /\ needsUpdate = FALSE
    /\ uniforms = NoUniforms
    /\ pc = "none"
    /\ faceIdx = 0
    /\ subIdx = 0
    /\ tileId = 0
    /\ ret = "undefined"
    /\ ops = 0

(***************************************************************************)
(* The scene: constructor (setupScene) and the public operations           *)
(***************************************************************************)
\* SUBDIVIDES is the configured level ("change this from 1-10"; 8 as shipped),
\* the mesh and the noise function are what the scene is constructed with
Init ==
    /\ SUBDIVIDES \in MinLevel .. MaxBuildLevel
    /\ faceCount \in 1 .. MaxFaces
    /\ faceCount * SUBDIVIDES * SUBDIVIDES <= MaxTiles
    /\ positions \in Meshes(faceCount)
    /\ noiseSeed \in Seeds
    /\ triangleMap = <<>>
    /\ colorData = <<>>
    /\ needsUpdate = FALSE
    /\ uniforms = NoUniforms
    /\ pc = "build"
    /\ faceIdx = 0
    /\ subIdx = 0
    /\ tileId = 0
    /\ ret = "undefined"
    /\ ops = 0
    /\ probe = NoProbe
    /\ elevation = 0
    /\ landType = "none"

\* the tile id after one more tile
NextTileId(id) == id + 1

\* one iteration of the inner loop of setupScene
BuildTile ==
    LET subTrianglesPerFace == SUBDIVIDES * SUBDIVIDES
        subPos == getSubTrianglePosition(SUBDIVIDES, subIdx)
        type == getRandomLandType(noiseSeed, faceIdx, subPos)
    IN  /\ pc = "build"
        /\ faceIdx < faceCount
        /\ triangleMap' = MapSet(triangleMap, tileId, LandTile(tileId, faceIdx, subIdx, type))
        /\ tileId' = NextTileId(tileId)
        /\ IF subIdx + 1 < subTrianglesPerFace
           THEN subIdx' = subIdx + 1 /\ faceIdx' = faceIdx
           ELSE subIdx' = 0 /\ faceIdx' = faceIdx + 1
        /\ UNCHANGED <<SUBDIVIDES, faceCount, positions, noiseSeed, colorData,
                       needsUpdate, uniforms, pc, ret, ops, probe, elevation, landType>>

\* the rest of setupScene: the atlas and the shader uniforms
FinishSetup ==
    LET subTrianglesPerFace == SUBDIVIDES * SUBDIVIDES
        totalTiles == faceCount * subTrianglesPerFace
    IN  /\ pc = "build"
        /\ faceIdx = faceCount
        /\ colorData' = createColorDataTexture(triangleMap, totalTiles)
        /\ needsUpdate' = TRUE
        /\ uniforms' = [textureSize |-> CeilSqrt(totalTiles), totalTriangles |-> faceCount,
                        subdivisions |-> SUBDIVIDES,
                        subTrianglesPerFace |-> subTrianglesPerFace]
        /\ pc' = "ready"
        /\ UNCHANGED <<SUBDIVIDES, faceCount, positions, noiseSeed, triangleMap,
                       faceIdx, subIdx, tileId, ret, ops, probe, elevation, landType>>

\* a clamp that lost its lower limit
ClampLevelMutant(level) == Min(MaxLevel, level)

\* Math.max(1, Math.min(10, level))
ClampLevel(level) == Max(MinLevel, Min(MaxLevel, level))

\* the arguments setSubdivisionLevel is called with
LevelArgs ==
    (MinLevel - LevelSlack .. MinLevel + 1) \cup (MaxLevel .. MaxLevel + LevelSlack)

setSubdivisionLevel(level) ==
    LET newLevel == ClampLevel(level)
    IN  /\ pc = "ready"
        /\ SUBDIVIDES' = IF newLevel # SUBDIVIDES THEN newLevel ELSE SUBDIVIDES
        /\ ret' = "undefined"
        /\ UNCHANGED <<faceCount, positions, noiseSeed, triangleMap, colorData,
                       needsUpdate, uniforms, pc, faceIdx, subIdx, tileId, ops,
                       probe, elevation, landType>>

\* the tile id the click handler composes for a hit of face faceIndex at point
PickedSubIndex(faceIndex, point) ==
    calculateSubTriangleIndex(SUBDIVIDES, getBarycentricCoordinates(point, positions[faceIndex]))

PickedTileId(faceIndex, point) ==
    LET subIndex == PickedSubIndex(faceIndex, point)
    IN  IF subIndex = NaN THEN NaN
        ELSE faceIndex * (SUBDIVIDES * SUBDIVIDES) + subIndex

\* the click listener, for a click whose ray hits face faceIndex at point
Click(faceIndex, point) ==
    /\ pc = "ready"
    /\ ops < MaxOps
    /\ updateSubTriangleColor(PickedTileId(faceIndex, point), Red)
    /\ ops' = ops + 1
    /\ UNCHANGED <<SUBDIVIDES, faceCount, positions, noiseSeed, uniforms, pc,
                   faceIdx, subIdx, tileId, ret, probe, elevation, landType>>

\* the tile id the fragment shader's main samples the atlas at, for the
\* fragment of face triangleId at point
ShaderTileId(triangleId, point) ==
    LET subIndex == getSubTriangleIndex(uniforms.subdivisions, uniforms.subTrianglesPerFace,
                                        vBarycentric(point, positions[triangleId]))
    IN  triangleId * uniforms.subTrianglesPerFace + subIndex

\* a call of the public method updateSubTriangleColor
Update(id, color) ==
    /\ pc = "ready"
    /\ ops < MaxOps
    /\ updateSubTriangleColor(id, color)
    /\ ret' = "undefined"
    /\ ops' = ops + 1
    /\ UNCHANGED <<SUBDIVIDES, faceCount, positions, noiseSeed, uniforms, pc,
                   faceIdx, subIdx, tileId, probe, elevation, landType>>

\* a frame: renderer.render uploads a dirty texture
animate ==
    /\ pc = "ready"
    /\ needsUpdate
    /\ needsUpdate' = FALSE
    /\ UNCHANGED <<SUBDIVIDES, faceCount, positions, noiseSeed, triangleMap, colorData,
                   uniforms, pc, faceIdx, subIdx, tileId, ret, ops, probe, elevation,
                   landType>>

\* the ids updateSubTriangleColor is called with
IdArgs == -1 .. Cardinality(DOMAIN triangleMap) + 1

Next ==
    \/ BuildTile
    \/ FinishSetup
    \/ \E level \in LevelArgs : setSubdivisionLevel(level)
    \/ \E faceIndex \in 0 .. faceCount - 1 :
           \E point \in HitPoints(positions[faceIndex]) : Click(faceIndex, point)
    \/ \E id \in IdArgs, color \in Colors : Update(id, color)
    \/ animate

Spec == Init /\ [][Next]_vars

(***************************************************************************)
(* Specification of the atlas build alone: Init is the state setupScene is *)
(* in when its tile loops are over, for meshes of up to MaxAtlasTiles      *)
(* tiles; the action is the rest of setupScene.                            *)
(***************************************************************************)
\* the tile records the loops of setupScene leave for fc faces at level n
BuiltMap(n, fc, seed) ==
    [id \in 0 .. fc * n * n - 1 |->
        LET face == id \div (n * n)
            subIndex == id % (n * n)
        IN  LandTile(id, face, subIndex,
                     getRandomLandType(seed, face, getSubTrianglePosition(n, subIndex)))]

InitAtlas ==
    /\ SUBDIVIDES \in MinLevel .. MaxLevel
    /\ faceCount \in 1 .. MaxAtlasTiles
    /\ faceCount * SUBDIVIDES * SUBDIVIDES <= MaxAtlasTiles
    /\ positions \in Meshes(faceCount)
    /\ noiseSeed \in Seeds
    /\ triangleMap = BuiltMap(SUBDIVIDES, faceCount, noiseSeed)
    /\ colorData = <<>>
    /\ needsUpdate = FALSE
    /\ uniforms = NoUniforms
    /\ pc = "build"
    /\ faceIdx = faceCount
    /\ subIdx = 0
    /\ tileId = faceCount * SUBDIVIDES * SUBDIVIDES
    /\ ret = "undefined"
    /\ ops = 0
    /\ probe = NoProbe
    /\ elevation = 0
    /\ landType = "none"

NextAtlas == FinishSetup

SpecAtlas == InitAtlas /\ [][NextAtlas]_vars

(***************************************************************************)
(* Specification of the classifier as a pure function of the elevation     *)
(***************************************************************************)
InitClassify ==
    /\ SUBDIVIDES = MinLevel
    /\ NoScene
    /\ probe = NoProbe
    /\ elevation \in 0 .. 1000
    /\ landType = "none"

Classify ==
    /\ landType = "none"
    /\ landType' = LandTypeOfElevation(elevation)
    /\ UNCHANGED <<sceneVars, probe, elevation>>

NextClassify == Classify

SpecClassify == InitClassify /\ [][NextClassify]_vars

(***************************************************************************)
(* Specification of the indexer as a pair of pure functions: Init draws    *)
(* the level, the actions apply the two directions to bounded inputs (one  *)
(* application per behaviour).                                             *)
(***************************************************************************)
\* numerators, over 100*n, of the weights probed at level n: the grid lines,
\* the points Eps to either side of them, and the offsets inside a cell
ProbeNums(n) ==
    { a \in -Eps .. 100 * n + Eps :
        (a % 100) \in {0, Eps, 100 - Eps, LowerOffset, 50, UpperOffset} }

InitIndex ==
    /\ SUBDIVIDES \in MinLevel .. MaxLevel
    /\ NoScene
    /\ probe = NoProbe
    /\ elevation = 0
    /\ landType = "none"

\* generation followed by picking: the centre of sub-tile subIndex
ProbeCentre(subIndex) ==
    LET n == SUBDIVIDES
        b == getSubTrianglePosition(n, subIndex)
    IN  /\ probe.kind = "none"
        /\ probe' = [kind |-> "centre", sub |-> subIndex,
                     cell |-> DecodeSubIndex(n, subIndex), bary |-> b,
                     out |-> calculateSubTriangleIndex(n, b)]
        /\ UNCHANGED <<sceneVars, elevation, landType>>

\* picking alone: the weights yn/(100 n) of vertex 2 and zn/(100 n) of vertex 3
ProbeBary(yn, zn) ==
    LET n == SUBDIVIDES
        b == [y |-> Fin(yn, 100 * n), z |-> Fin(zn, 100 * n)]
    IN  /\ probe.kind = "none"
        /\ probe' = [kind |-> "bary", sub |-> 0, cell |-> NoCell, bary |-> b,
                     out |-> calculateSubTriangleIndex(n, b)]
        /\ UNCHANGED <<sceneVars, elevation, landType>>

NextIndex ==
    \/ \E subIndex \in 0 .. SUBDIVIDES * SUBDIVIDES - 1 : ProbeCentre(subIndex)
    \/ \E yn \in ProbeNums(SUBDIVIDES), zn \in ProbeNums(SUBDIVIDES) : ProbeBary(yn, zn)

SpecIndex == InitIndex /\ [][NextIndex]_vars

(***************************************************************************)
(* Claims about the indexer (checked under SpecIndex)                      *)
(***************************************************************************)
\* the valid half-cells of a face at level n (o = 1 is the upper half-cell)
ValidHalfCells(n) ==
    { c \in [row : 0 .. n - 1, col : 0 .. n - 1, o : {0, 1}] :
        /\ c.row + c.col < n
        /\ c.o = 1 => c.row + c.col < n - 1 }

\* C1: for N in {1,2,4,8,10} and every subIndex in [0, N*N), feeding the
\* weights getSubTrianglePosition computes for the centre of sub-tile subIndex
\* to calculateSubTriangleIndex returns subIndex.
C1_RoundTrip ==
    (probe.kind = "centre" /\ SUBDIVIDES \in {1, 2, 4, 8, 10})
        => probe.out = probe.sub

\* C2: row*(2N - row) + 2*col + orientation is a bijection between the valid
\* half-cells and [0, N*N), and the decoding of getSubTrianglePosition is its
\* inverse: every subIndex decodes to a valid half-cell that linearizes to it.
C2_Linearization ==
    LET n == SUBDIVIDES
        cells == ValidHalfCells(n)
    IN  /\ Cardinality(cells) = n * n
        /\ { SubIndexOf(n, c.row, c.col, c.o) : c \in cells } = 0 .. n * n - 1
        /\ probe.kind = "centre" =>
             LET c == [row |-> probe.cell.row, col |-> probe.cell.col,
                       o |-> IF probe.cell.isUpper THEN 1 ELSE 0]
             IN  /\ c \in cells
                 /\ SubIndexOf(n, c.row, c.col, c.o) = probe.sub

\* a sub-tile of the last row of the deepest level has been decoded
C2_Witness ==
    /\ probe.kind = "centre"
    /\ SUBDIVIDES = MaxLevel
    /\ probe.sub = MaxLevel * MaxLevel - 1
    /\ probe.cell.row = MaxLevel - 1

\* grid coordinates of the probed weights
ProbeGridX == (probe.bary.y.n * SUBDIVIDES) \div probe.bary.y.d
ProbeGridY == (probe.bary.z.n * SUBDIVIDES) \div probe.bary.z.d

\* the probed point lies on the hypotenuse of the face, or at most Eps outside
\* it, and its integer grid coordinates have row + col >= N
OnHypotenuse ==
    /\ probe.kind = "bary"
    /\ probe.bary.y.n >= 0
    /\ probe.bary.z.n >= 0
    /\ probe.bary.y.n + probe.bary.z.n <= 100 * SUBDIVIDES + Eps
    /\ ProbeGridX + ProbeGridY >= SUBDIVIDES

\* C5: when row + col >= N, calculateSubTriangleIndex returns the index of a
\* valid half-cell nearest to the point, i.e. one touching the grid vertex
\* (gridX, gridY); at vertex 2 (u = 1, v = 0) that is index 2N-2.
C5_EdgeClamp ==
    OnHypotenuse =>
        \E c \in ValidHalfCells(SUBDIVIDES) :
            /\ c.col \in {ProbeGridX - 1, ProbeGridX}
            /\ c.row \in {ProbeGridY - 1, ProbeGridY}
            /\ probe.out = SubIndexOf(SUBDIVIDES, c.row, c.col, c.o)

\* the same weights with every negative one replaced by 0
OnEdge(b) ==
    [y |-> IF b.y.n < 0 THEN Fin(0, b.y.d) ELSE b.y,
     z |-> IF b.z.n < 0 THEN Fin(0, b.z.d) ELSE b.z]

\* C6: a weight Eps below 0 is clamped before bucketing: the index returned
\* for (0 - eps, v) or (u, 0 - eps) is the index returned for the on-edge
\* weights (0, v) or (u, 0).
C6_EpsilonClamp ==
    (/\ probe.kind = "bary"
     /\ probe.bary.y.n < 0 \/ probe.bary.z.n < 0
     /\ probe.bary.y.n <= 100 * SUBDIVIDES
     /\ probe.bary.z.n <= 100 * SUBDIVIDES)
        => probe.out = calculateSubTriangleIndex(SUBDIVIDES, OnEdge(probe.bary))

(***************************************************************************)
(* Claims about the scene (checked under Spec) and the classifier          *)
(* (checked under SpecClassify)                                            *)
(***************************************************************************)
Faces == 0 .. faceCount - 1

\* C3: after the build pass the tile records are keyed by exactly the ids
\* 0 .. faceCount*N*N - 1, and every record has id = parentTriangle*N*N +
\* subIndex with parentTriangle < faceCount and subIndex < N*N (N the level
\* of the build, kept in the uniforms); for N = 1 there is one tile per face.
C3_DenseTileIds ==
    pc = "ready" =>
        LET n2 == uniforms.subdivisions * uniforms.subdivisions
        IN  /\ DOMAIN triangleMap = 0 .. faceCount * n2 - 1
            /\ \A id \in DOMAIN triangleMap :
                 /\ triangleMap[id].id = id
                 /\ triangleMap[id].parentTriangle \in 0 .. faceCount - 1
                 /\ triangleMap[id].subIndex \in 0 .. n2 - 1
                 /\ id = triangleMap[id].parentTriangle * n2 + triangleMap[id].subIndex
            /\ uniforms.subdivisions = 1 => Cardinality(DOMAIN triangleMap) = faceCount

\* the build of a mesh of two faces at level 2 is over: tile 7 is the last
\* sub-triangle of face 1
C3_Witness ==
    /\ pc = "ready"
    /\ faceCount = 2
    /\ uniforms.subdivisions = 2
    /\ 7 \in DOMAIN triangleMap
    /\ triangleMap[7].parentTriangle = 1
    /\ triangleMap[7].subIndex = 3

\* C4: in every state after the build the number of tile records equals
\* faceCount * N*N for the current level N used by picking, and the tile id a
\* click composes names the record generated for its (faceIndex, subIndex).
C4_CountInvariant ==
    pc = "ready" =>
        /\ Cardinality(DOMAIN triangleMap) = faceCount * SUBDIVIDES * SUBDIVIDES
        /\ \A f \in Faces : \A p \in HitPoints(positions[f]) :
             PickedTileId(f, p) # NaN =>
                 /\ PickedTileId(f, p) \in DOMAIN triangleMap
                 /\ triangleMap[PickedTileId(f, p)].parentTriangle = f
                 /\ triangleMap[PickedTileId(f, p)].subIndex = PickedSubIndex(f, p)

\* the barycentric determinant dot00*dot11 - dot01*dot01 of a face is zero
Degenerate(face) ==
    LET v0 == Sub(face[3], face[1])
        v1v2 == Sub(face[2], face[1])
    IN  Dot(v0, v0) * Dot(v1v2, v1v2) - Dot(v0, v1v2) * Dot(v0, v1v2) = 0

\* C7: a click that hits a face whose barycentric determinant is zero changes
\* no tile record and no atlas cell.
C7_DegenerateGuard ==
    [][\A f \in Faces : \A p \in HitPoints(positions[f]) :
          (Degenerate(positions[f]) /\ Click(f, p))
              => (triangleMap' = triangleMap /\ colorData' = colorData)]_vars

\* the canonical threshold table
CanonicalLandType(e) ==
    IF e < 450 THEN "ocean"
    ELSE IF e < 500 THEN "desert"
    ELSE IF e < 700 THEN "plains"
    ELSE IF e < 800 THEN "forest"
    ELSE "mountain"

\* C8: the category of every elevation in [0,1], boundaries included, is the
\* one of the canonical threshold table (so it is non-decreasing in the
\* elevation and never city).
C8_ThresholdTable ==
    landType # "none" => landType = CanonicalLandType(elevation)

\* C9: updateSubTriangleColor(tileId, C) with tileId a tile id leaves cell
\* tileId equal to (C.r, C.g, C.b, 1.0), every other float of the buffer
\* unchanged, and the buffer dirty.
C9_UpdateFrame ==
    [][\A id \in DOMAIN triangleMap : \A color \in Colors :
          Update(id, color) =>
              /\ colorData'[4 * id] = color.r
              /\ colorData'[4 * id + 1] = color.g
              /\ colorData'[4 * id + 2] = color.b
              /\ colorData'[4 * id + 3] = One
              /\ DOMAIN colorData' = DOMAIN colorData
              /\ \A k \in DOMAIN colorData :
                   k \notin 4 * id .. 4 * id + 3 => colorData'[k] = colorData[k]
              /\ needsUpdate']_vars

\* an update with the second color has been written into the cell of the last
\* tile and not yet uploaded
C9_Witness ==
    /\ pc = "ready"
    /\ needsUpdate
    /\ \E id \in DOMAIN triangleMap :
         /\ id = Cardinality(DOMAIN triangleMap) - 1
         /\ id > 0
         /\ triangleMap[id].color = Color(0, One, 0)
         /\ colorData[4 * id] = 0
         /\ colorData[4 * id + 1] = One
         /\ colorData[4 * id + 2] = 0
         /\ colorData[4 * id + 3] = One

\* C10: updateSubTriangleColor with an id that is no tile id changes no tile
\* record, no atlas cell and not the dirty flag, and returns an out-of-range
\* error to its caller, i.e. something else than what a successful call returns.
C10_OutOfRangeReported ==
    [][\A id \in IdArgs \ DOMAIN triangleMap : \A color \in Colors :
          Update(id, color) =>
              /\ UNCHANGED <<triangleMap, colorData, needsUpdate>>
              /\ ret' # "undefined"]_vars


(***************************************************************************)
(* Claims about the atlas build (checked under SpecAtlas)                  *)
(***************************************************************************)
\* the four floats of atlas cell i
Cell(i) == <<colorData[4 * i], colorData[4 * i + 1], colorData[4 * i + 2],
             colorData[4 * i + 3]>>

\* C11: the built buffer has side size = ceil(sqrt(totalTiles)) and
\* size*size*4 floats; the cell at column x and row y is cell y*size + x and
\* holds tile y*size + x's color with alpha 1.0 when y*size + x < totalTiles,
\* and the opaque-black sentinel otherwise; 10 tiles give a 4x4 buffer.
C11_AtlasLayout ==
    pc = "ready" =>
        LET totalTiles == Cardinality(DOMAIN triangleMap)
        IN  \E size \in 1 .. totalTiles :
              /\ (size - 1) * (size - 1) < totalTiles
              /\ totalTiles <= size * size
              /\ totalTiles = 10 => size = 4
              /\ DOMAIN colorData = 0 .. size * size * 4 - 1
              /\ \A x \in 0 .. size - 1 : \A y \in 0 .. size - 1 :
                   LET i == y * size + x
                   IN  IF i < totalTiles
                       THEN Cell(i) = <<triangleMap[i].color.r, triangleMap[i].color.g,
                                        triangleMap[i].color.b, One>>
                       ELSE Cell(i) = <<0, 0, 0, One>>

\* the atlas of ten tiles has been built: 64 floats, cell 15 is a sentinel
C11_Witness ==
    /\ pc = "ready"
    /\ Cardinality(DOMAIN triangleMap) = 10
    /\ DOMAIN colorData = 0 .. 63
    /\ Cell(15) = <<0, 0, 0, One>>
    /\ Cell(9) # <<0, 0, 0, One>>

(***************************************************************************)
(* Claims about the level setter (checked under Spec)                      *)
(***************************************************************************)
\* C13: the stored level is always an integer in 1..10; a call of
\* setSubdivisionLevel(level) with any integer leaves min(10, max(1, level))
\* stored and returns without an error, and no other step changes the level.
C13_LevelClamped ==
    [][ /\ SUBDIVIDES' \in 1 .. 10
        /\ \A level \in LevelArgs :
             setSubdivisionLevel(level) =>
                 /\ SUBDIVIDES' = (IF level < 1 THEN 1 ELSE IF level > 10 THEN 10 ELSE level)
                 /\ ret' = "undefined"
        /\ SUBDIVIDES' # SUBDIVIDES => \E level \in LevelArgs : setSubdivisionLevel(level)
      ]_vars

\* a call with an argument of 10 or more has left level 10 on a scene that
\* was built at a lower level
C13_Witness ==
    /\ pc = "ready"
    /\ SUBDIVIDES = 10
    /\ Cardinality(DOMAIN triangleMap) < faceCount * 100

(***************************************************************************)
(* Claims about the tile records and the atlas together (checked under     *)
(* Spec)                                                                   *)
(***************************************************************************)
\* C15: once the atlas is built, and after any updates and clicks, for every
\* tile id the RGB of atlas cell id is the color of the tile's record and
\* the alpha of the cell is 1.0.
C15_RecordAtlasSync ==
    pc = "ready" =>
        \A id \in DOMAIN triangleMap :
            Cell(id) = <<triangleMap[id].color.r, triangleMap[id].color.g,
                         triangleMap[id].color.b, One>>

\* two updates have been made and a tile carries the second update color in
\* its record and in its cell
C15_Witness ==
    /\ pc = "ready"
    /\ ops = 2
    /\ \E id \in DOMAIN triangleMap :
         /\ triangleMap[id].color = Color(0, One, 0)
         /\ Cell(id) = <<0, One, 0, One>>

(***************************************************************************)
(* Claims about rendering and picking together                             *)
(***************************************************************************)
\* the two index functions agree on every probed pair of weights when they
\* are given the same level (checked under SpecIndex)
SameLevelAgreement ==
    probe.kind # "none" =>
        getSubTriangleIndex(SUBDIVIDES, SUBDIVIDES * SUBDIVIDES, probe.bary) = probe.out

\* C14: in every state after the build, for every face with an area and
\* every point of it, the sub-tile index the shader computes for the
\* fragment at the point equals the index calculateSubTriangleIndex computes
\* for a click on the point, and the tile the click recolors is the tile
\* drawn there (checked under Spec).
C14_RenderPickAgree ==
    pc = "ready" =>
        \A f \in Faces :
            ~Degenerate(positions[f]) =>
                \A p \in HitPoints(positions[f]) :
                    /\ getSubTriangleIndex(uniforms.subdivisions, uniforms.subTrianglesPerFace,
                                           vBarycentric(p, positions[f]))
                           = PickedSubIndex(f, p)
                    /\ ShaderTileId(f, p) = PickedTileId(f, p)

\* the picker's result is a sub-tile index of the level on every probed pair
\* of finite weights, inside, on the boundary and outside the face (checked
\* under SpecIndex)
PickInRange ==
    probe.kind # "none" => probe.out \in 0 .. SUBDIVIDES * SUBDIVIDES - 1

\* C16: for a click on a face f with an area, at any point, the picker
\* returns an integer in 0 .. N*N-1 for the current level N, the composed
\* tile id lies in f*N*N .. (f+1)*N*N - 1, and the click changes no tile
\* record other than one whose parentTriangle is f (checked under Spec).
C16_PickStaysOnFace ==
    [][ \A f \in Faces :
          ~Degenerate(positions[f]) =>
              \A p \in HitPoints(positions[f]) :
                  Click(f, p) =>
                      /\ PickedSubIndex(f, p) \in 0 .. SUBDIVIDES * SUBDIVIDES - 1
                      /\ PickedTileId(f, p) \in f * SUBDIVIDES * SUBDIVIDES ..
                                                (f + 1) * SUBDIVIDES * SUBDIVIDES - 1
                      /\ \A id \in DOMAIN triangleMap :
                             triangleMap'[id] # triangleMap[id] =>
                                 triangleMap[id].parentTriangle = f
      ]_vars

(***************************************************************************)
(* Claims about the build pass repeated (checked under Spec)               *)
(***************************************************************************)
\* C12: a second scene instance, built from the same mesh at the same level
\* with whatever noise function its own createNoise3D() returns, assigns
\* every tile id the type the first instance assigned it.
C12_Determinism ==
    pc = "ready" =>
        \A seed \in Seeds :
            LET second == BuiltMap(uniforms.subdivisions, faceCount, seed)
            IN  /\ DOMAIN second = DOMAIN triangleMap
                /\ \A id \in DOMAIN triangleMap : second[id].type = triangleMap[id].type

====
